---- MODULE Spec2Model ----
(***************************************************************************)
(* Air Harmony Insight server: sensor ingestion and threshold              *)
(* classification (services/database.ts), the alert table and its          *)
(* operator transitions, and the WebSocket subscription registry with its  *)
(* room fan-out (services/websocket.ts).                                   *)
(*                                                                         *)
(* Numeric columns are DECIMAL(.,3).  Every value of the model is an       *)
(* integer number of 1/10000 units, so that an input can carry one more    *)
(* decimal than the column keeps: 35.4 is 354000, 35.3996 is 353996.       *)
(***************************************************************************)
EXTENDS Integers, Sequences, FiniteSets, TLC

(* ------------------------------------------------------------------ *)
(* Bounds of the model                                                 *)
(* ------------------------------------------------------------------ *)
MaxReadings == 2
MaxTime == 2
MaxInflight == 2
\* length of the analytics period in time buckets (24 one-hour buckets for
\* '24h'), scaled down; one unit of time is one bucket
Period == 2

(* ------------------------------------------------------------------ *)
(* Reference data: buildings, zones, sensor types, sensors             *)
(* ------------------------------------------------------------------ *)
Buildings == {"B1", "B2"}
Zones == {"Z1", "Z2"}
Users == {"u1", "u2"}
Sockets == {"c1", "c2"}

\* zones.building_id
ZoneBuilding == [z \in Zones |-> IF z = "Z1" THEN "B1" ELSE "B2"]

\* the default rows of sensor_types, in 1/10000 units
SensorTypes ==
  [ PM25        |-> [good |-> 120000,   moderate |-> 354000,   poor |-> 554000,   critical |-> 1504000],
    CO2         |-> [good |-> 8000000,  moderate |-> 10000000, poor |-> 15000000, critical |-> 20000000],
    TVOC        |-> [good |-> 2500,     moderate |-> 5000,     poor |-> 10000,    critical |-> 20000],
    Temperature |-> [good |-> 220000,   moderate |-> 240000,   poor |-> 270000,   critical |-> 300000],
    Humidity    |-> [good |-> 400000,   moderate |-> 300000,   poor |-> 200000,   critical |-> 100000],
    Pressure    |-> [good |-> 10130000, moderate |-> 10000000, poor |-> 9900000,  critical |-> 9800000] ]

\* rows of the sensors table: one sensor of each type, spread over the zones,
\* and one sensor (s7) whose type has no row in sensor_types, the case
\* insertSensorReading tests for with "if (thresholds[0])"
SensorTable ==
  [ s1 |-> [zone_id |-> "Z1", sensor_type |-> "PM25"],
    s2 |-> [zone_id |-> "Z1", sensor_type |-> "Humidity"],
    s3 |-> [zone_id |-> "Z2", sensor_type |-> "CO2"],
    s4 |-> [zone_id |-> "Z2", sensor_type |-> "TVOC"],
    s5 |-> [zone_id |-> "Z1", sensor_type |-> "Temperature"],
    s6 |-> [zone_id |-> "Z2", sensor_type |-> "Pressure"],
    s7 |-> [zone_id |-> "Z1", sensor_type |-> "Noise"] ]

SensorIds == DOMAIN SensorTable

\* a column or field that is NULL / undefined; a timestamp column that is
\* NULL holds 0 (the clock starts at 1)
Null == "null"

(* ------------------------------------------------------------------ *)
(* Severity order and numeric helpers                                  *)
(* ------------------------------------------------------------------ *)
\* good < moderate < poor < critical
Rank(st) == CASE st = "good" -> 0 [] st = "moderate" -> 1 [] st = "poor" -> 2 [] st = "critical" -> 3

\* DECIMAL(12,3) keeps three decimals, rounding half away from zero:
\* 10 model units are 0.001
Decimal3(v) == IF v >= 0 THEN ((v + 5) \div 10) * 10 ELSE 0 - (((5 - v) \div 10) * 10)

(* ------------------------------------------------------------------ *)
(* State                                                               *)
(* ------------------------------------------------------------------ *)
VARIABLES
  now,                    \* NOW() of the store, a logical clock
  sensor_readings,        \* rows of sensor_readings, in insertion order
  alerts,                 \* rows of alerts; the index of a row is its id
  ingested,               \* history: the request body that produced each row of sensor_readings
  cleared,                \* history: how many resolveAll calls returned each alert id
  inflight,               \* HTTP requests that are between two awaits of their handler
  response,               \* the HTTP response of the last request handled
  socketStatus,           \* socket.io connection state of each socket id
  authPending,            \* sockets whose authenticate handler awaits its lookups
  authenticatedClients,   \* Map socket id -> AuthenticatedSocket
  buildingSubscriptions,  \* Map building id -> Set of socket ids
  zoneSubscriptions,      \* Map zone id -> Set of socket ids
  rooms,                  \* socket.io rooms each socket has joined
  delivered               \* events emitted to each socket by the last handler

dbVars == <<now, sensor_readings, alerts, ingested, cleared, inflight>>
wsVars == <<socketStatus, authPending, authenticatedClients, buildingSubscriptions, zoneSubscriptions, rooms>>
vars == <<now, sensor_readings, alerts, ingested, cleared, inflight, response, socketStatus, authPending, authenticatedClients, buildingSubscriptions, zoneSubscriptions, rooms, delivered>>

NoResponse == [op |-> "none", code |-> 0]
NoEvents == [c \in Sockets |-> <<>>]

Init ==
  /\ now = 1
  /\ sensor_readings = <<>>
  /\ alerts = <<>>
  /\ ingested = <<>>
  /\ cleared = <<>>
  /\ inflight = {}
  /\ response = NoResponse
  /\ socketStatus = [c \in Sockets |-> "new"]
  /\ authPending = {}
  /\ authenticatedClients = <<>>
  /\ buildingSubscriptions = <<>>
  /\ zoneSubscriptions = <<>>
  /\ rooms = [c \in Sockets |-> {}]
  /\ delivered = NoEvents

(* ------------------------------------------------------------------ *)
(* Socket.io room emit                                                 *)
(* ------------------------------------------------------------------ *)
BuildingRoom(b) == <<"building", b>>
ZoneRoom(z) == <<"zone", z>>

\* io.to(room).emit(ev): one copy to every connected socket that joined room
RoomEmit(box, room, ev) ==
  [c \in Sockets |-> IF socketStatus[c] = "open" /\ room \in rooms[c]
                     THEN Append(box[c], ev) ELSE box[c]]

\* socket.emit(ev): one copy to that socket
SocketEmit(box, c, ev) == [box EXCEPT ![c] = Append(@, ev)]

\* number of events named name in a sequence of events
RECURSIVE Copies(_, _)
Copies(evs, name) ==
  IF evs = <<>> THEN 0
  ELSE (IF Head(evs).name = name THEN 1 ELSE 0) + Copies(Tail(evs), name)

(* ------------------------------------------------------------------ *)
(* Sensor reading ingestion                                            *)
(* ------------------------------------------------------------------ *)
\* the threshold row joined to a sensor (sensors JOIN sensor_types)
Thresholds(s) == SensorTypes[SensorTable[s].sensor_type]

\* the rows the threshold query of insertSensorReading returns
ThresholdRows(s) ==
  IF SensorTable[s].sensor_type \in DOMAIN SensorTypes THEN <<Thresholds(s)>> ELSE <<>>

\* the sensors the join with sensor_types keeps
Catalogued == {s \in SensorIds : ThresholdRows(s) # <<>>}

\* the comparison made strict: a value on a threshold stays in the lower band
ClassifyStrict(t, v) ==
  IF v > t.critical THEN "critical"
  ELSE IF v > t.poor THEN "poor"
  ELSE IF v > t.moderate THEN "moderate"
  ELSE "good"

\* status computed by insertSensorReading from the threshold row t
Classify(t, v) ==
  IF v >= t.critical THEN "critical"
  ELSE IF v >= t.poor THEN "poor"
  ELSE IF v >= t.moderate THEN "moderate"
  ELSE "good"

\* let status = 'good'; if (thresholds[0]) { ... }
StatusOf(s, v) ==
  IF ThresholdRows(s) # <<>> THEN Classify(ThresholdRows(s)[1], v) ELSE "good"

\* the row INSERTed INTO sensor_readings
ReadingRow(s, v, time) ==
  [time |-> time, sensor_id |-> s, value |-> Decimal3(v), status |-> StatusOf(s, v)]

\* the row INSERTed INTO alerts by generateAlert
AlertRow(s, v, status) ==
  [ time |-> now,
    zone_id |-> SensorTable[s].zone_id,
    sensor_id |-> s,
    sensor_type |-> SensorTable[s].sensor_type,
    value |-> Decimal3(v),
    status |-> status,
    severity |-> IF status = "critical" THEN "critical" ELSE "high",
    is_resolved |-> FALSE,
    resolved_at |-> 0,
    resolved_by |-> Null,
    acknowledged_at |-> 0 ]

\* alert creation that skips a sensor which already has an unresolved alert
AlertsAfterReadingDeduplicated(s, v) ==
  LET status == StatusOf(s, v)
  IN IF /\ status = "poor" \/ status = "critical"
        /\ ~\E i \in 1..Len(alerts) : alerts[i].sensor_id = s /\ ~alerts[i].is_resolved
     THEN Append(alerts, AlertRow(s, v, status))
     ELSE alerts

\* alerts after insertSensorReading's "generate alert if needed"
AlertsAfterReading(s, v) ==
  LET status == StatusOf(s, v)
  IN IF status = "poor" \/ status = "critical"
     THEN Append(alerts, AlertRow(s, v, status))
     ELSE alerts

\* one reading per sensor type of the zone, the one inserted last
LastInsertedReadingSets(rs, z) ==
  LET idx == {i \in 1..Len(rs) : /\ SensorTable[rs[i].sensor_id].zone_id = z
                                  /\ rs[i].sensor_id \in Catalogued}
      kinds == {SensorTable[rs[i].sensor_id].sensor_type : i \in idx}
      last(k) == CHOOSE i \in idx : /\ SensorTable[rs[i].sensor_id].sensor_type = k
                                     /\ \A j \in idx : SensorTable[rs[j].sensor_id].sensor_type = k => j <= i
  IN {{[id |-> rs[last(k)].sensor_id, type |-> k, value |-> rs[last(k)].value,
        timestamp |-> rs[last(k)].time, status |-> rs[last(k)].status] : k \in kinds}}

\* getLatestReadings(zone): DISTINCT ON (sensor_type) ... ORDER BY time DESC,
\* over the readings rs; rows with equal time are ordered arbitrarily, so the
\* result is one of the sets this operator returns
LatestReadingSets(rs, z) ==
  LET idx == {i \in 1..Len(rs) : /\ SensorTable[rs[i].sensor_id].zone_id = z
                                  /\ rs[i].sensor_id \in Catalogued}
      kinds == {SensorTable[rs[i].sensor_id].sensor_type : i \in idx}
      newest(k) == {i \in idx : /\ SensorTable[rs[i].sensor_id].sensor_type = k
                                 /\ \A j \in idx : SensorTable[rs[j].sensor_id].sensor_type = k
                                                     => rs[j].time <= rs[i].time}
      picks == {f \in [kinds -> idx] : \A k \in kinds : f[k] \in newest(k)}
  IN {{[id |-> rs[f[k]].sensor_id, type |-> k, value |-> rs[f[k]].value,
        timestamp |-> rs[f[k]].time, status |-> rs[f[k]].status] : k \in kinds} : f \in picks}

\* the route taking the status of the request body when it has one
PostSensorDataTrustingStatus(b, body) ==
  LET s == body.sensor_id
      v == body.value
      status == IF body.status # Null THEN body.status ELSE StatusOf(s, v)
      row == [ReadingRow(s, v, IF body.timestamp = 0 THEN now ELSE body.timestamp) EXCEPT !.status = status]
  IN /\ Len(sensor_readings) < MaxReadings
     /\ s \in SensorIds
     /\ ZoneBuilding[SensorTable[s].zone_id] = b
     /\ sensor_readings' = Append(sensor_readings, row)
     /\ alerts' = IF status \in {"poor", "critical"} THEN Append(alerts, AlertRow(s, v, status)) ELSE alerts
     /\ ingested' = Append(ingested, body)
     /\ delivered' = RoomEmit(NoEvents, ZoneRoom(SensorTable[s].zone_id),
                              [name |-> "sensor_reading", zoneId |-> SensorTable[s].zone_id])
     /\ response' = [op |-> "sensor-data", code |-> 201, id |-> s,
                     timestamp |-> row.time, status |-> status]
     /\ UNCHANGED <<now, cleared, inflight, wsVars>>

\* the outcomes of the broadcast block of the ingestion route: the event
\* was handed to the zone's room, or getWebSocketService, getLatestReadings
\* or the emit threw
WsOutcomes == {"sent", "failed"}

\* the answer of a route whose broadcast block lets its exception through
AfterBroadcastRaised(row, ws) ==
  IF ws = "failed" THEN [op |-> "sensor-data", code |-> 500]
  ELSE [op |-> "sensor-data", code |-> 201, id |-> row.sensor_id,
        timestamp |-> row.time, status |-> row.status]

\* the answer of the route after its broadcast block, whose catch logs
\* the exception and goes on
AfterBroadcast(row, ws) ==
  [op |-> "sensor-data", code |-> 201, id |-> row.sensor_id,
   timestamp |-> row.time, status |-> row.status]

\* POST /:buildingId/sensor-data with the request body body, of which the
\* route reads sensor_id, value and timestamp (0 stands for a body without
\* timestamp); a status field of the body is not among the fields it reads;
\* ws is the outcome of the broadcast block
PostSensorDataThrough(b, body, ws) ==
  LET s == body.sensor_id
      v == body.value
      ts == body.timestamp
  IN
  /\ Len(sensor_readings) < MaxReadings
  /\ IF s \notin SensorIds
     THEN /\ response' = [op |-> "sensor-data", code |-> 404]
          /\ delivered' = NoEvents
          /\ UNCHANGED <<dbVars, wsVars>>
     ELSE IF ZoneBuilding[SensorTable[s].zone_id] # b
     THEN /\ response' = [op |-> "sensor-data", code |-> 403]
          /\ delivered' = NoEvents
          /\ UNCHANGED <<dbVars, wsVars>>
     ELSE LET row == ReadingRow(s, v, IF ts = 0 THEN now ELSE ts)
              z == SensorTable[s].zone_id
          IN /\ sensor_readings' = Append(sensor_readings, row)
             /\ alerts' = AlertsAfterReading(s, v)
             /\ ingested' = Append(ingested, body)
             /\ \E latest \in LatestReadingSets(sensor_readings', z) :
                  delivered' =
                    IF ws = "sent" /\ \E r \in latest : r.id = s
                    THEN RoomEmit(NoEvents, ZoneRoom(z),
                                  [name |-> "sensor_reading", zoneId |-> z,
                                   reading |-> CHOOSE r \in latest : r.id = s])
                    ELSE NoEvents
             /\ response' = AfterBroadcast(row, ws)
             /\ UNCHANGED <<now, cleared, inflight, wsVars>>

\* the request whose broadcast block runs through
PostSensorDataBody(b, body) == PostSensorDataThrough(b, body, "sent")

\* the request with body {sensor_id: s, value: v, timestamp: ts}
PostSensorData(b, s, v, ts) ==
  PostSensorDataBody(b, [sensor_id |-> s, value |-> v, timestamp |-> ts, status |-> Null])

\* GET /buildings/:buildingId/zones/:zoneId: the latest readings of the zone
GetZoneDetails(b, z) ==
  /\ IF z \notin Zones \/ ZoneBuilding[z] # b
     THEN response' = [op |-> "zone", code |-> 404]
     ELSE \E latest \in LatestReadingSets(sensor_readings, z) :
            response' = [op |-> "zone", code |-> 200, id |-> z, readings |-> latest]
  /\ delivered' = NoEvents
  /\ UNCHANGED <<dbVars, wsVars>>

\* the store's clock advances
Tick ==
  /\ now < MaxTime
  /\ now' = now + 1
  /\ delivered' = NoEvents
  /\ UNCHANGED <<sensor_readings, alerts, ingested, cleared, inflight, response, wsVars>>

(* ------------------------------------------------------------------ *)
(* Inputs of the ingestion specification: for every sensor, values at, *)
(* just below (one stored digit, and under half a stored digit) and    *)
(* above each threshold of its type                                    *)
(* ------------------------------------------------------------------ *)
ThresholdValues(s) ==
  LET t == Thresholds(s)
      ts == {t.good, t.moderate, t.poor, t.critical}
  IN ts \cup {x - 10 : x \in ts} \cup {x - 4 : x \in {t.moderate}} \cup {t.critical + 10}

\* a sensor id that is no row of sensors
UnknownSensor == "s0"

InputValues == UNION {ThresholdValues(s) : s \in Catalogued}

IngestNext ==
  \/ \E s \in Catalogued : \E v \in ThresholdValues(s) :
       PostSensorData(ZoneBuilding[SensorTable[s].zone_id], s, v, 0)
  \/ \E b \in Buildings : \E s \in {"s1", UnknownSensor} : \E v \in {SensorTypes.PM25.critical} :
       /\ s \in SensorIds => ZoneBuilding[SensorTable[s].zone_id] # b
       /\ PostSensorData(b, s, v, 0)

SpecIngest == Init /\ [][IngestNext]_vars

\* the sensors whose readings open the alerts of the alert specification:
\* one in each building
AlertSensors == {"s1", "s3"}

\* ingestion for the sensors of zone Z1, the one without threshold row among
\* them, with values around the PM2.5 thresholds
CatalogNext ==
  \E s \in {t \in SensorIds : SensorTable[t].zone_id = "Z1"} : \E v \in ThresholdValues("s1") :
    PostSensorData("B1", s, v, 0)

SpecCatalog == Init /\ [][CatalogNext]_vars

\* readings of the PM2.5 and Temperature sensors of Z1 with the timestamp of
\* the caller or of the server, and the zone details of both zones
LatestNext ==
  \/ \E s \in {"s1", "s5"} : \E v \in {Thresholds(s).good, Thresholds(s).moderate} : \E ts \in 0..MaxTime :
       PostSensorData("B1", s, v, ts)
  \/ Tick
  \/ \E b \in Buildings : \E z \in Zones : GetZoneDetails(b, z)

SpecLatest == Init /\ [][LatestNext]_vars

\* request bodies with and without a status of the caller's
RequestBodies ==
  {[sensor_id |-> s, value |-> v, timestamp |-> 0, status |-> st] :
     s \in AlertSensors \cup {UnknownSensor},
     v \in {Thresholds(t)[k] : t \in AlertSensors, k \in {"good", "moderate", "poor", "critical"}},
     st \in {Null, "good", "critical"}}

BodyNext ==
  \E b \in Buildings : \E body \in RequestBodies : PostSensorDataBody(b, body)

SpecBody == Init /\ [][BodyNext]_vars

(* ------------------------------------------------------------------ *)
(* WebSocket subscription registry                                     *)
(* ------------------------------------------------------------------ *)
\* Map<string, Set<string>> helpers: subs.get(k).add(c), creating the set
MapAdd(subs, k, c) ==
  IF k \in DOMAIN subs THEN [subs EXCEPT ![k] = @ \cup {c}] ELSE subs @@ (k :> {c})

\* subs.get(k)?.delete(c), deleting the key when its set becomes empty
MapRemove(subs, k, c) ==
  IF k \notin DOMAIN subs THEN subs
  ELSE IF subs[k] \ {c} = {} THEN [x \in DOMAIN subs \ {k} |-> subs[x]]
  ELSE [subs EXCEPT ![k] = @ \ {c}]

RECURSIVE MapRemoveAll(_, _, _)
MapRemoveAll(subs, ks, c) ==
  IF ks = {} THEN subs
  ELSE LET k == CHOOSE x \in ks : TRUE
       IN MapRemoveAll(MapRemove(subs, k, c), ks \ {k}, c)

\* getConnectedClientsForBuilding / getConnectedClientsForZone read these sets
BuildingSubscribers(b) == IF b \in DOMAIN buildingSubscriptions THEN buildingSubscriptions[b] ELSE {}
ZoneSubscribers(z) == IF z \in DOMAIN zoneSubscriptions THEN zoneSubscriptions[z] ELSE {}

\* a new socket.io connection: the handlers are registered
Connect(c) ==
  /\ socketStatus[c] = "new"
  /\ socketStatus' = [socketStatus EXCEPT ![c] = "open"]
  /\ delivered' = NoEvents
  /\ UNCHANGED <<dbVars, response, authPending, authenticatedClients, buildingSubscriptions, zoneSubscriptions, rooms>>

\* buildingSubscriptions after handleDisconnection(c)
BuildingsAfterDisconnect(c) ==
  IF c \in DOMAIN authenticatedClients /\ authenticatedClients[c].buildingId # Null
  THEN MapRemove(buildingSubscriptions, authenticatedClients[c].buildingId, c)
  ELSE buildingSubscriptions

\* zoneSubscriptions after handleDisconnection(c)
ZonesAfterDisconnect(c) ==
  IF c \in DOMAIN authenticatedClients
  THEN MapRemoveAll(zoneSubscriptions, authenticatedClients[c].subscribedZones, c)
  ELSE zoneSubscriptions

\* the 'disconnect' event of socket c: socket.io takes the socket out of all
\* its rooms, then handleDisconnection runs
HandleDisconnection(c) ==
  /\ socketStatus' = [socketStatus EXCEPT ![c] = "closing"]
  /\ rooms' = [rooms EXCEPT ![c] = {}]
  /\ buildingSubscriptions' = BuildingsAfterDisconnect(c)
  /\ zoneSubscriptions' = ZonesAfterDisconnect(c)
  /\ authenticatedClients' = [x \in DOMAIN authenticatedClients \ {c} |-> authenticatedClients[x]]

\* socket.disconnect() called by a handler: nothing on a socket already closed
SocketDisconnect(c) ==
  IF socketStatus[c] = "open"
  THEN HandleDisconnection(c)
  ELSE UNCHANGED <<socketStatus, rooms, buildingSubscriptions, zoneSubscriptions, authenticatedClients>>

\* the client goes away
Disconnect(c) ==
  /\ socketStatus[c] = "open"
  /\ HandleDisconnection(c)
  /\ delivered' = NoEvents
  /\ UNCHANGED <<dbVars, response, authPending>>

\* the events of c that were received before its disconnect have all been
\* dispatched (they are dispatched on the next tick, before any I/O callback)
Drained(c) ==
  /\ socketStatus[c] = "closing"
  /\ socketStatus' = [socketStatus EXCEPT ![c] = "closed"]
  /\ delivered' = NoEvents
  /\ UNCHANGED <<dbVars, response, authPending, authenticatedClients, buildingSubscriptions, zoneSubscriptions, rooms>>

\* handleAuthentication up to its first await; tokenOk is false for a missing
\* token and for one verifyAccessToken rejects
AuthenticateBegin(c, tokenOk) ==
  /\ socketStatus[c] = "open"
  /\ c \notin authPending
  /\ IF tokenOk
     THEN /\ authPending' = authPending \cup {c}
          /\ delivered' = NoEvents
          /\ UNCHANGED <<socketStatus, rooms, buildingSubscriptions, zoneSubscriptions, authenticatedClients>>
     ELSE /\ delivered' = SocketEmit(NoEvents, c, [name |-> "auth_error"])
          /\ SocketDisconnect(c)
          /\ UNCHANGED authPending
  /\ UNCHANGED <<dbVars, response>>

\* handleAuthentication after validateSession and getUserById have answered;
\* found is false when the session or the active user is missing
AuthenticateEnd(c, found) ==
  /\ c \in authPending
  /\ socketStatus[c] # "closing"
  /\ authPending' = authPending \ {c}
  /\ IF found
     THEN /\ authenticatedClients' =
               [x \in DOMAIN authenticatedClients \cup {c} |->
                  IF x = c THEN [buildingId |-> Null, subscribedZones |-> {}]
                  ELSE authenticatedClients[x]]
          /\ delivered' = SocketEmit(NoEvents, c, [name |-> "authenticated"])
          /\ UNCHANGED <<socketStatus, rooms, buildingSubscriptions, zoneSubscriptions>>
     ELSE /\ delivered' = SocketEmit(NoEvents, c, [name |-> "auth_error"])
          /\ SocketDisconnect(c)
  /\ UNCHANGED <<dbVars, response>>

\* a socket whose events can still reach their handlers: a connected one,
\* and one whose disconnect was handled while events it had sent were
\* still waiting for dispatch
Dispatching(c) == socketStatus[c] \in {"open", "closing"}

\* handleBuildingSubscription(socket c, {buildingId: b}); b = Null for a
\* request without buildingId
HandleBuildingSubscription(c, b) ==
  /\ Dispatching(c)
  /\ IF c \notin DOMAIN authenticatedClients
     THEN /\ delivered' = SocketEmit(NoEvents, c, [name |-> "error", error |-> "Not authenticated"])
          /\ UNCHANGED <<authenticatedClients, buildingSubscriptions, rooms>>
     ELSE IF b = Null
     THEN /\ delivered' = SocketEmit(NoEvents, c, [name |-> "error", error |-> "Building ID is required"])
          /\ UNCHANGED <<authenticatedClients, buildingSubscriptions, rooms>>
     ELSE /\ rooms' = [rooms EXCEPT ![c] = @ \cup {BuildingRoom(b)}]
          /\ authenticatedClients' = [authenticatedClients EXCEPT ![c].buildingId = b]
          /\ buildingSubscriptions' = MapAdd(buildingSubscriptions, b, c)
          /\ delivered' = SocketEmit(NoEvents, c, [name |-> "building_subscribed", buildingId |-> b])
  /\ UNCHANGED <<dbVars, response, socketStatus, authPending, zoneSubscriptions>>

\* the zone subscription registered before the client lookup is checked
HandleZoneSubscriptionLateCheck(c, z) ==
  /\ Dispatching(c)
  /\ IF z = Null
     THEN /\ delivered' = SocketEmit(NoEvents, c, [name |-> "error", error |-> "Zone ID is required"])
          /\ UNCHANGED <<authenticatedClients, zoneSubscriptions, rooms>>
     ELSE /\ rooms' = [rooms EXCEPT ![c] = @ \cup {ZoneRoom(z)}]
          /\ zoneSubscriptions' = MapAdd(zoneSubscriptions, z, c)
          /\ IF c \notin DOMAIN authenticatedClients
             THEN /\ delivered' = SocketEmit(NoEvents, c, [name |-> "error", error |-> "Not authenticated"])
                  /\ UNCHANGED authenticatedClients
             ELSE /\ authenticatedClients' = [authenticatedClients EXCEPT ![c].subscribedZones = @ \cup {z}]
                  /\ delivered' = SocketEmit(NoEvents, c, [name |-> "zone_subscribed", zoneId |-> z])
  /\ UNCHANGED <<dbVars, response, socketStatus, authPending, buildingSubscriptions>>

\* handleZoneSubscription(socket c, {zoneId: z})
HandleZoneSubscription(c, z) ==
  /\ Dispatching(c)
  /\ IF c \notin DOMAIN authenticatedClients
     THEN /\ delivered' = SocketEmit(NoEvents, c, [name |-> "error", error |-> "Not authenticated"])
          /\ UNCHANGED <<authenticatedClients, zoneSubscriptions, rooms>>
     ELSE IF z = Null
     THEN /\ delivered' = SocketEmit(NoEvents, c, [name |-> "error", error |-> "Zone ID is required"])
          /\ UNCHANGED <<authenticatedClients, zoneSubscriptions, rooms>>
     ELSE /\ rooms' = [rooms EXCEPT ![c] = @ \cup {ZoneRoom(z)}]
          /\ authenticatedClients' = [authenticatedClients EXCEPT ![c].subscribedZones = @ \cup {z}]
          /\ zoneSubscriptions' = MapAdd(zoneSubscriptions, z, c)
          /\ delivered' = SocketEmit(NoEvents, c, [name |-> "zone_subscribed", zoneId |-> z])
  /\ UNCHANGED <<dbVars, response, socketStatus, authPending, buildingSubscriptions>>

\* the unsubscription deleting the zone's subscriber set without testing
\* that it has become empty
HandleZoneUnsubscriptionDroppingSet(c, z) ==
  /\ Dispatching(c)
  /\ IF c \notin DOMAIN authenticatedClients
     THEN /\ delivered' = SocketEmit(NoEvents, c, [name |-> "error", error |-> "Not authenticated"])
          /\ UNCHANGED <<authenticatedClients, zoneSubscriptions, rooms>>
     ELSE IF z = Null
     THEN /\ delivered' = SocketEmit(NoEvents, c, [name |-> "error", error |-> "Zone ID is required"])
          /\ UNCHANGED <<authenticatedClients, zoneSubscriptions, rooms>>
     ELSE /\ rooms' = [rooms EXCEPT ![c] = @ \ {ZoneRoom(z)}]
          /\ authenticatedClients' = [authenticatedClients EXCEPT ![c].subscribedZones = @ \ {z}]
          /\ zoneSubscriptions' = [x \in DOMAIN zoneSubscriptions \ {z} |-> zoneSubscriptions[x]]
          /\ delivered' = SocketEmit(NoEvents, c, [name |-> "zone_unsubscribed", zoneId |-> z])
  /\ UNCHANGED <<dbVars, response, socketStatus, authPending, buildingSubscriptions>>

\* handleZoneUnsubscription(socket c, {zoneId: z})
HandleZoneUnsubscription(c, z) ==
  /\ Dispatching(c)
  /\ IF c \notin DOMAIN authenticatedClients
     THEN /\ delivered' = SocketEmit(NoEvents, c, [name |-> "error", error |-> "Not authenticated"])
          /\ UNCHANGED <<authenticatedClients, zoneSubscriptions, rooms>>
     ELSE IF z = Null
     THEN /\ delivered' = SocketEmit(NoEvents, c, [name |-> "error", error |-> "Zone ID is required"])
          /\ UNCHANGED <<authenticatedClients, zoneSubscriptions, rooms>>
     ELSE /\ rooms' = [rooms EXCEPT ![c] = @ \ {ZoneRoom(z)}]
          /\ authenticatedClients' = [authenticatedClients EXCEPT ![c].subscribedZones = @ \ {z}]
          /\ zoneSubscriptions' = MapRemove(zoneSubscriptions, z, c)
          /\ delivered' = SocketEmit(NoEvents, c, [name |-> "zone_unsubscribed", zoneId |-> z])
  /\ UNCHANGED <<dbVars, response, socketStatus, authPending, buildingSubscriptions>>

\* the AlertEvent both alert broadcasts emit, to the building room and then
\* to the zone room
AlertFanout(name, b, z) ==
  LET ev == [name |-> name, zoneId |-> z]
  IN RoomEmit(RoomEmit(NoEvents, BuildingRoom(b), ev), ZoneRoom(z), ev)

\* broadcastNewAlert(b, z, alert)
BroadcastNewAlert(b, z) ==
  /\ delivered' = AlertFanout("alert_new", b, z)
  /\ UNCHANGED <<dbVars, response, wsVars>>

\* broadcastAlertResolved(b, z, alert)
BroadcastAlertResolved(b, z) ==
  /\ delivered' = AlertFanout("alert_resolved", b, z)
  /\ UNCHANGED <<dbVars, response, wsVars>>

\* the steps of the registry, with the building and zone ids clients send
\* drawn from bs and zs
RegistrySteps(bs, zs) ==
  \/ \E c \in Sockets : Connect(c)
  \/ \E c \in Sockets : \E ok \in BOOLEAN : AuthenticateBegin(c, ok)
  \/ \E c \in Sockets : \E ok \in BOOLEAN : AuthenticateEnd(c, ok)
  \/ \E c \in Sockets : \E b \in bs \cup {Null} : HandleBuildingSubscription(c, b)
  \/ \E c \in Sockets : \E z \in zs \cup {Null} : HandleZoneSubscription(c, z)
  \/ \E c \in Sockets : \E z \in zs \cup {Null} : HandleZoneUnsubscription(c, z)
  \/ \E c \in Sockets : Disconnect(c)
  \/ \E c \in Sockets : Drained(c)

RegistryNext == RegistrySteps(Buildings, Zones)

SpecRegistry == Init /\ [][RegistryNext]_vars

\* the registry with one building and both zones
ZonesNext == RegistrySteps({"B1"}, Zones)

SpecZones == Init /\ [][ZonesNext]_vars

(* ------------------------------------------------------------------ *)
(* Alert transitions                                                   *)
(* ------------------------------------------------------------------ *)
\* alert ids a request can name: the rows there can be, and one more
AlertIds == 1..(MaxReadings + 1)

\* markAlertAsRead: UPDATE alerts SET acknowledged_at = NOW() WHERE id = a
MarkAlertAsRead(a) ==
  [i \in 1..Len(alerts) |-> IF i = a THEN [alerts[i] EXCEPT !.acknowledged_at = now] ELSE alerts[i]]

\* an update that marks the alert resolved and leaves resolved_by as it is
ResolveAlertWithoutActor(a, u) ==
  [i \in 1..Len(alerts) |->
     IF i = a THEN [alerts[i] EXCEPT !.is_resolved = TRUE, !.resolved_at = now]
     ELSE alerts[i]]

\* resolveAlert: UPDATE alerts SET is_resolved = true, resolved_at = NOW(),
\* resolved_by = u WHERE id = a
ResolveAlert(a, u) ==
  [i \in 1..Len(alerts) |->
     IF i = a THEN [alerts[i] EXCEPT !.is_resolved = TRUE, !.resolved_at = now, !.resolved_by = u]
     ELSE alerts[i]]

\* every alert of the building, resolved or not
AlertsOfBuilding(b) ==
  {i \in 1..Len(alerts) : ZoneBuilding[alerts[i].zone_id] = b}

\* the rows resolveAllAlertsForBuilding updates
UnresolvedOfBuilding(b) ==
  {i \in 1..Len(alerts) : ZoneBuilding[alerts[i].zone_id] = b /\ alerts[i].is_resolved = FALSE}

\* the batch update without its is_resolved = false condition
ResolveAllAlertsForBuildingAnyState(b, u) ==
  [i \in 1..Len(alerts) |->
     IF ZoneBuilding[alerts[i].zone_id] = b
     THEN [alerts[i] EXCEPT !.is_resolved = TRUE, !.resolved_at = now, !.resolved_by = u]
     ELSE alerts[i]]

\* resolveAllAlertsForBuilding: one UPDATE ... RETURNING alerts.id
ResolveAllAlertsForBuilding(b, u) ==
  [i \in 1..Len(alerts) |->
     IF i \in UnresolvedOfBuilding(b)
     THEN [alerts[i] EXCEPT !.is_resolved = TRUE, !.resolved_at = now, !.resolved_by = u]
     ELSE alerts[i]]

\* the selection by acknowledged_at IS NULL in the place of is_resolved = false
UnreadAlertIds(b) ==
  {i \in 1..Len(alerts) : /\ alerts[i].sensor_type \in DOMAIN SensorTypes
                           /\ ZoneBuilding[alerts[i].zone_id] = b
                           /\ alerts[i].acknowledged_at = 0}

\* the alerts getActiveAlerts selects: alerts JOIN zones JOIN sensor_types
\* WHERE building_id = b AND is_resolved = false
ActiveAlertIds(b) ==
  {i \in 1..Len(alerts) : /\ alerts[i].sensor_type \in DOMAIN SensorTypes
                           /\ ZoneBuilding[alerts[i].zone_id] = b
                           /\ alerts[i].is_resolved = FALSE}

\* the AlertNotificationResponse of alert i
AlertNotification(i) ==
  [id |-> i, zoneId |-> alerts[i].zone_id, sensorType |-> alerts[i].sensor_type,
   value |-> alerts[i].value, status |-> alerts[i].status, timestamp |-> alerts[i].time,
   isRead |-> alerts[i].acknowledged_at # 0]

\* getActiveAlerts(b): the selected alerts ORDER BY time DESC; rows of equal
\* time come in any order, so the result is one of these lists
GetActiveAlerts(b) ==
  LET ids == ActiveAlertIds(b)
      n == Cardinality(ids)
      orders == {f \in [1..n -> ids] :
                   /\ \A j, k \in 1..n : j # k => f[j] # f[k]
                   /\ \A j, k \in 1..n : j < k => alerts[f[j]].time >= alerts[f[k]].time}
  IN {[j \in 1..n |-> AlertNotification(f[j])] : f \in orders}

\* GET /:buildingId/alerts
GetBuildingAlerts(b) ==
  /\ \E list \in GetActiveAlerts(b) : response' = [op |-> "alerts", code |-> 200, data |-> list]
  /\ delivered' = NoEvents
  /\ UNCHANGED <<dbVars, wsVars>>

\* the history of RETURNING alerts.id: one more return of each id of ids
Returned(hist, ids) ==
  [i \in DOMAIN hist \cup ids |->
     (IF i \in DOMAIN hist THEN hist[i] ELSE 0) + (IF i \in ids THEN 1 ELSE 0)]

\* PATCH /alerts/:alertId/read
PatchAlertRead(a) ==
  /\ IF a \notin 1..Len(alerts)
     THEN /\ response' = [op |-> "read", code |-> 404]
          /\ UNCHANGED alerts
     ELSE /\ alerts' = MarkAlertAsRead(a)
          /\ response' = [op |-> "read", code |-> 200]
  /\ delivered' = NoEvents
  /\ UNCHANGED <<now, sensor_readings, ingested, cleared, inflight, wsVars>>

\* POST /alerts/:alertId/resolve by user u
PostAlertResolve(a, u) ==
  /\ IF a \notin 1..Len(alerts)
     THEN /\ response' = [op |-> "resolve", code |-> 404]
          /\ UNCHANGED alerts
     ELSE /\ alerts' = ResolveAlert(a, u)
          /\ response' = [op |-> "resolve", code |-> 200]
  /\ delivered' = NoEvents
  /\ UNCHANGED <<now, sensor_readings, ingested, cleared, inflight, wsVars>>

\* the chat function mark_alert_resolved called for user u: resolveAlert
\* with no lookup of the alert, then the sentence "Alert a has been marked
\* as resolved" as the function's result (code 200 stands for it)
MarkAlertResolved(a, u) ==
  /\ alerts' = ResolveAlert(a, u)
  /\ response' = [op |-> "mark_alert_resolved", code |-> 200]
  /\ delivered' = NoEvents
  /\ UNCHANGED <<now, sensor_readings, ingested, cleared, inflight, wsVars>>

\* POST /buildings/:buildingId/alerts/clear by user u
PostAlertsClear(b, u) ==
  /\ alerts' = ResolveAllAlertsForBuilding(b, u)
  /\ response' = [op |-> "clear", code |-> 200, resolvedCount |-> Cardinality(UnresolvedOfBuilding(b))]
  /\ cleared' = Returned(cleared, UnresolvedOfBuilding(b))
  /\ delivered' = NoEvents
  /\ UNCHANGED <<now, sensor_readings, ingested, inflight, wsVars>>

AlertNext ==
  \/ \E s \in AlertSensors : \E v \in {Thresholds(s).moderate, Thresholds(s).critical} :
       PostSensorData(ZoneBuilding[SensorTable[s].zone_id], s, v, 0)
  \/ Tick
  \/ \E a \in AlertIds : PatchAlertRead(a)
  \/ \E a \in AlertIds : \E u \in Users : PostAlertResolve(a, u)
  \/ \E b \in Buildings : \E u \in Users : PostAlertsClear(b, u)
  \/ \E b \in Buildings : GetBuildingAlerts(b)
  \/ \E a \in AlertIds : \E u \in Users : MarkAlertResolved(a, u)

SpecAlerts == Init /\ [][AlertNext]_vars

\* every transition of the alerts of one sensor: opened by critical
\* readings, read, resolved through the route and the chat function, cleared
LifecycleNext ==
  \/ PostSensorData("B1", "s1", Thresholds("s1").critical, 0)
  \/ Tick
  \/ \E a \in AlertIds : PatchAlertRead(a)
  \/ \E a \in AlertIds : PostAlertResolve(a, "u1")
  \/ \E a \in AlertIds : MarkAlertResolved(a, "u1")
  \/ \E b \in Buildings : PostAlertsClear(b, "u2")

SpecLifecycle == Init /\ [][LifecycleNext]_vars

\* clearing the alerts that critical readings open, beside single resolves
ClearNext ==
  \/ \E s \in AlertSensors : PostSensorData(ZoneBuilding[SensorTable[s].zone_id], s, Thresholds(s).critical, 0)
  \/ Tick
  \/ \E a \in AlertIds : PostAlertResolve(a, "u1")
  \/ \E b \in Buildings : \E u \in Users : PostAlertsClear(b, u)

SpecClear == Init /\ [][ClearNext]_vars

(* ------------------------------------------------------------------ *)
(* The same handlers, one step per statement that reads or writes the  *)
(* store: another request can run between two awaits of a handler      *)
(* ------------------------------------------------------------------ *)
\* POST /:buildingId/sensor-data up to the INSERT INTO sensor_readings of
\* insertSensorReading
InsertSensorReading(b, s, v, ts) ==
  /\ Len(sensor_readings) < MaxReadings
  /\ Cardinality(inflight) < MaxInflight
  /\ delivered' = NoEvents
  /\ IF s \notin SensorIds
     THEN /\ response' = [op |-> "sensor-data", code |-> 404]
          /\ UNCHANGED <<dbVars, wsVars>>
     ELSE IF ZoneBuilding[SensorTable[s].zone_id] # b
     THEN /\ response' = [op |-> "sensor-data", code |-> 403]
          /\ UNCHANGED <<dbVars, wsVars>>
     ELSE LET row == ReadingRow(s, v, IF ts = 0 THEN now ELSE ts)
              req == [op |-> "sensor-data",
                      stage |-> IF row.status \in {"poor", "critical"} THEN "inserted" ELSE "stored",
                      sensor_id |-> s, value |-> v, time |-> row.time, status |-> row.status]
          IN /\ req \notin inflight
             /\ sensor_readings' = Append(sensor_readings, row)
             /\ ingested' = Append(ingested, [sensor_id |-> s, value |-> v, timestamp |-> ts, status |-> Null])
             /\ inflight' = inflight \cup {req}
             /\ UNCHANGED <<now, alerts, cleared, response, wsVars>>

\* insertSensorReading goes on: generateAlert INSERTs the alert
GenerateAlert(r) ==
  /\ r \in inflight
  /\ r.op = "sensor-data" /\ r.stage = "inserted"
  /\ alerts' = Append(alerts, AlertRow(r.sensor_id, r.value, r.status))
  /\ inflight' = (inflight \ {r}) \cup {[r EXCEPT !.stage = "stored"]}
  /\ delivered' = NoEvents
  /\ UNCHANGED <<now, sensor_readings, ingested, cleared, response, wsVars>>

\* insertSensorReading goes on, and a query of generateAlert rejects: the
\* exception leaves insertSensorReading and the route's catch answers 500
GenerateAlertRejected(r) ==
  /\ r \in inflight
  /\ r.op = "sensor-data" /\ r.stage = "inserted"
  /\ response' = [op |-> "sensor-data", code |-> 500]
  /\ inflight' = inflight \ {r}
  /\ delivered' = NoEvents
  /\ UNCHANGED <<now, sensor_readings, alerts, ingested, cleared, wsVars>>

\* the route goes on: getLatestReadings, broadcastSensorReading, 201
BroadcastSensorReading(r) ==
  /\ r \in inflight
  /\ r.op = "sensor-data" /\ r.stage = "stored"
  /\ LET z == SensorTable[r.sensor_id].zone_id
     IN \E latest \in LatestReadingSets(sensor_readings, z) :
          delivered' =
            IF \E x \in latest : x.id = r.sensor_id
            THEN RoomEmit(NoEvents, ZoneRoom(z),
                          [name |-> "sensor_reading", zoneId |-> z,
                           reading |-> CHOOSE x \in latest : x.id = r.sensor_id])
            ELSE NoEvents
  /\ response' = [op |-> "sensor-data", code |-> 201, id |-> r.sensor_id,
                  timestamp |-> r.time, status |-> r.status]
  /\ inflight' = inflight \ {r}
  /\ UNCHANGED <<now, sensor_readings, alerts, ingested, cleared, wsVars>>

\* POST /alerts/:alertId/resolve up to the answer of its existence check
ResolveAlertCheck(a, u) ==
  /\ Cardinality(inflight) < MaxInflight
  /\ delivered' = NoEvents
  /\ IF a \notin 1..Len(alerts)
     THEN /\ response' = [op |-> "resolve", code |-> 404]
          /\ UNCHANGED inflight
     ELSE /\ [op |-> "resolve", alertId |-> a, userId |-> u] \notin inflight
          /\ inflight' = inflight \cup {[op |-> "resolve", alertId |-> a, userId |-> u]}
          /\ UNCHANGED response
  /\ UNCHANGED <<now, sensor_readings, alerts, ingested, cleared, wsVars>>

\* the route goes on: resolveAlert, 200
ResolveAlertUpdate(r) ==
  /\ r \in inflight
  /\ r.op = "resolve"
  /\ alerts' = ResolveAlert(r.alertId, r.userId)
  /\ response' = [op |-> "resolve", code |-> 200]
  /\ inflight' = inflight \ {r}
  /\ delivered' = NoEvents
  /\ UNCHANGED <<now, sensor_readings, ingested, cleared, wsVars>>

ConcurrentNext ==
  \/ \E s \in AlertSensors : \E v \in {Thresholds(s).moderate, Thresholds(s).critical} :
       InsertSensorReading(ZoneBuilding[SensorTable[s].zone_id], s, v, 0)
  \/ \E r \in inflight : GenerateAlert(r)
  \/ \E r \in inflight : BroadcastSensorReading(r)
  \/ \E a \in AlertIds : \E u \in Users : ResolveAlertCheck(a, u)
  \/ \E r \in inflight : ResolveAlertUpdate(r)
  \/ \E b \in Buildings : \E u \in Users : PostAlertsClear(b, u)
  \/ Tick

SpecConcurrent == Init /\ [][ConcurrentNext]_vars

(* ------------------------------------------------------------------ *)
(* Analytics: the trends of getBuildingAnalytics.  Averages are exact  *)
(* fractions [n, d] with d > 0                                         *)
(* ------------------------------------------------------------------ *)
RECURSIVE Gcd(_, _)
Gcd(a, b) == IF b = 0 THEN a ELSE Gcd(b, a % b)

Abs(x) == IF x < 0 THEN 0 - x ELSE x

\* the fraction n / d in lowest terms with a positive denominator
Frac(n, d) ==
  LET g == Gcd(Abs(n), Abs(d))
      sgn == IF d < 0 THEN 0 - 1 ELSE 1
  IN [n |-> sgn * (n \div g), d |-> sgn * (d \div g)]

FracAdd(x, y) == Frac(x.n * y.d + y.n * x.d, x.d * y.d)

\* Math.round(x * 100) / 100 of a fraction x, in hundredths: the nearest
\* integer to 100 x, a half going up
Round2(x) == (200 * x.n + x.d) \div (2 * x.d)

\* the rows of sensor_readings JOIN sensors JOIN sensor_types JOIN zones
\* WHERE z.building_id = b AND st.type_name = k
ReadingsOfKind(b, k) ==
  {i \in 1..Len(sensor_readings) :
     LET s == sensor_readings[i].sensor_id
     IN /\ s \in Catalogued
        /\ SensorTable[s].sensor_type = k
        /\ ZoneBuilding[SensorTable[s].zone_id] = b}

RECURSIVE SumOfValues(_)
SumOfValues(idx) ==
  IF idx = {} THEN 0
  ELSE LET i == CHOOSE x \in idx : TRUE
       IN sensor_readings[i].value + SumOfValues(idx \ {i})

\* AVG(sr.value) over the rows idx (not empty)
Avg(idx) == Frac(SumOfValues(idx), Cardinality(idx))

\* the rows of the current period: sr.time > NOW() - period
CurrentRows(b, k) == {i \in ReadingsOfKind(b, k) : sensor_readings[i].time > now - Period}

\* the rows of the previous period: sr.time BETWEEN NOW() - 2 period AND
\* NOW() - period
PreviousRows(b, k) ==
  {i \in ReadingsOfKind(b, k) :
     /\ sensor_readings[i].time >= now - 2 * Period
     /\ sensor_readings[i].time <= now - Period}

\* currentPeriodData: one row per time_bucket with the AVG of its readings
CurrentPeriodData(b, k) ==
  LET rows == CurrentRows(b, k)
      buckets == {sensor_readings[i].time : i \in rows}
  IN [t \in buckets |-> Avg({i \in rows : sensor_readings[i].time = t})]

RECURSIVE SumOfRows(_, _)
SumOfRows(data, ts) ==
  IF ts = {} THEN Frac(0, 1)
  ELSE LET t == CHOOSE x \in ts : TRUE
       IN FracAdd(data[t], SumOfRows(data, ts \ {t}))

\* currentAvg: the sum of the bucket averages over the number of buckets,
\* 0 without buckets
CurrentAvg(b, k) ==
  LET data == CurrentPeriodData(b, k)
      sum == SumOfRows(data, DOMAIN data)
  IN IF DOMAIN data = {} THEN Frac(0, 1)
     ELSE Frac(sum.n, sum.d * Cardinality(DOMAIN data))

\* previousAvg: parseFloat(avg_value || 0)
PreviousAvg(b, k) ==
  IF PreviousRows(b, k) = {} THEN Frac(0, 1) ELSE Avg(PreviousRows(b, k))

\* ((cur - prev) / prev) * 100 for prev # 0; the averages are in 1/10000
\* units, the quotient is a pure number
PercentChange(cur, prev) == Frac(100 * (cur.n * prev.d - prev.n * cur.d), cur.d * prev.n)

\* stable below 2 percent either way, else up or down by the sign
Direction(pct) ==
  IF Abs(pct.n) < 2 * pct.d THEN "stable"
  ELSE IF pct.n > 0 THEN "up" ELSE "down"

\* a trend that reports a rise of 100 percent from a previous period without
\* a positive average
TrendUpFromNothing(b, k) ==
  LET cur == CurrentAvg(b, k)
      prev == PreviousAvg(b, k)
      pct == IF prev.n > 0 THEN PercentChange(cur, prev)
             ELSE IF cur.n > 0 THEN Frac(100, 1) ELSE Frac(0, 1)
  IN [current |-> Round2(Frac(cur.n, cur.d * 10000)),
      previous |-> Round2(Frac(prev.n, prev.d * 10000)),
      change |-> Round2(pct),
      direction |-> Direction(pct)]

\* trends[k]: the two averages in hundredths of the unit, the change in
\* hundredths of a percent, and the direction
Trend(b, k) ==
  LET cur == CurrentAvg(b, k)
      prev == PreviousAvg(b, k)
      pct == IF prev.n > 0 THEN PercentChange(cur, prev) ELSE Frac(0, 1)
  IN [current |-> Round2(Frac(cur.n, cur.d * 10000)),
      previous |-> Round2(Frac(prev.n, prev.d * 10000)),
      change |-> Round2(pct),
      direction |-> Direction(pct)]

\* the rows of a grouped query ORDER BY timestamp ASC
RECURSIVE RowsAscending(_, _)
RowsAscending(data, ts) ==
  IF ts = {} THEN <<>>
  ELSE LET t == CHOOSE x \in ts : \A y \in ts : x <= y
       IN <<[timestamp |-> t, value |-> data[t]]>> \o RowsAscending(data, ts \ {t})

\* getBuildingAnalytics(b, period): the trends and the bucket averages of
\* every sensor type
GetBuildingAnalytics(b) ==
  /\ response' = [op |-> "analytics", code |-> 200, building |-> b,
                  trends |-> [k \in DOMAIN SensorTypes |-> Trend(b, k)],
                  historicalData |-> [k \in DOMAIN SensorTypes |->
                                        RowsAscending(CurrentPeriodData(b, k),
                                                      DOMAIN CurrentPeriodData(b, k))]]
  /\ delivered' = NoEvents
  /\ UNCHANGED <<dbVars, wsVars>>

\* readings of the Temperature sensor of building B1, some below zero:
\* -0.1, 0.1, 0.101 and 0.2 degrees
TrendValues == {0 - 1000, 1000, 1010, 2000}

TrendRows ==
  {ReadingRow("s5", v, t) : v \in TrendValues, t \in 1..(2 * Period)}

\* the tables of at most MaxReadings readings of the two periods before
\* time 2 Period
TrendTables == UNION {[1..n -> TrendRows] : n \in 0..MaxReadings}

\* the store holds the readings of a table; no request has been handled
InitTrend ==
  /\ now = 2 * Period
  /\ sensor_readings \in TrendTables
  /\ ingested = [i \in 1..Len(sensor_readings) |->
                   [sensor_id |-> sensor_readings[i].sensor_id, value |-> sensor_readings[i].value,
                    timestamp |-> sensor_readings[i].time, status |-> Null]]
  /\ alerts = <<>>
  /\ cleared = <<>>
  /\ inflight = {}
  /\ response = NoResponse
  /\ socketStatus = [c \in Sockets |-> "new"]
  /\ authPending = {}
  /\ authenticatedClients = <<>>
  /\ buildingSubscriptions = <<>>
  /\ zoneSubscriptions = <<>>
  /\ rooms = [c \in Sockets |-> {}]
  /\ delivered = NoEvents

TrendNext == \E b \in Buildings : GetBuildingAnalytics(b)

SpecTrend == InitTrend /\ [][TrendNext]_vars

(* ------------------------------------------------------------------ *)
(* Fan-out: the registry of building B1 and its zone Z1, the alert     *)
(* broadcasts, and ingestion for the PM2.5 sensor of Z1                *)
(* ------------------------------------------------------------------ *)
(* ------------------------------------------------------------------ *)
(* History of a zone: getHistoricalReadings.  A bucket interval is a   *)
(* number of time units                                                *)
(* ------------------------------------------------------------------ *)
\* time_bucket(w, t): the start of the bucket of width w that holds t
TimeBucket(w, t) == (t \div w) * w

\* the rows of sensor_readings JOIN sensors JOIN sensor_types WHERE
\* s.zone_id = z AND st.type_name = k AND sr.time > NOW() - period
HistoryRows(z, k) ==
  {i \in 1..Len(sensor_readings) :
     LET s == sensor_readings[i].sensor_id
     IN /\ s \in Catalogued
        /\ SensorTable[s].zone_id = z
        /\ SensorTable[s].sensor_type = k
        /\ sensor_readings[i].time > now - Period}

\* a series with an entry for every bucket of the period, 0 for a bucket
\* without readings
HistoricalDataZeroFilled(rows, w) ==
  LET buckets == {TimeBucket(w, t) : t \in (now - Period + 1)..now}
      data == [b \in buckets |->
                 IF \E i \in rows : TimeBucket(w, sensor_readings[i].time) = b
                 THEN Avg({i \in rows : TimeBucket(w, sensor_readings[i].time) = b})
                 ELSE Frac(0, 1)]
  IN RowsAscending(data, buckets)

\* GROUP BY time_bucket ORDER BY timestamp ASC with AVG(sr.value)
HistoricalData(rows, w) ==
  LET buckets == {TimeBucket(w, sensor_readings[i].time) : i \in rows}
      data == [b \in buckets |-> Avg({i \in rows : TimeBucket(w, sensor_readings[i].time) = b})]
  IN RowsAscending(data, buckets)

\* sensorCheck: the number of sensors of the kind in the zone
SensorCheck(z, k) ==
  Cardinality({s \in Catalogued : SensorTable[s].zone_id = z /\ SensorTable[s].sensor_type = k})

\* getHistoricalReadings(z, k, period, interval)
GetHistoricalReadings(z, k, w) ==
  [sensorType |-> k,
   data |-> IF SensorCheck(z, k) = 0 THEN <<>> ELSE HistoricalData(HistoryRows(z, k), w)]

\* GET /zones/:zoneId/history?sensorType=k&interval=w
GetZoneHistory(z, k, w) ==
  /\ response' = IF k = Null THEN [op |-> "history", code |-> 400]
                 ELSE IF z \notin Zones THEN [op |-> "history", code |-> 404]
                 ELSE [op |-> "history", code |-> 200, zone |-> z, interval |-> w,
                       data |-> GetHistoricalReadings(z, k, w)]
  /\ delivered' = NoEvents
  /\ UNCHANGED <<dbVars, wsVars>>

UnknownZone == "Z0"

\* bucket widths of the requests: one and two time units
Intervals == {1, 2}

\* readings of the PM2.5 and Temperature sensors of zone Z1 (building B1),
\* in the period and at its lower edge
HistoryTimes == Period..(2 * Period)

HistoryRowSet ==
  {ReadingRow("s1", v, t) : v \in {1000, 2000}, t \in HistoryTimes}
    \cup {ReadingRow("s5", 2000, t) : t \in HistoryTimes}

HistoryTables == UNION {[1..n -> HistoryRowSet] : n \in 0..MaxReadings}

\* the store holds the readings of a table at time 2 Period
InitHistory ==
  /\ now = 2 * Period
  /\ sensor_readings \in HistoryTables
  /\ ingested = [i \in 1..Len(sensor_readings) |->
                   [sensor_id |-> sensor_readings[i].sensor_id, value |-> sensor_readings[i].value,
                    timestamp |-> sensor_readings[i].time, status |-> Null]]
  /\ alerts = <<>>
  /\ cleared = <<>>
  /\ inflight = {}
  /\ response = NoResponse
  /\ socketStatus = [c \in Sockets |-> "new"]
  /\ authPending = {}
  /\ authenticatedClients = <<>>
  /\ buildingSubscriptions = <<>>
  /\ zoneSubscriptions = <<>>
  /\ rooms = [c \in Sockets |-> {}]
  /\ delivered = NoEvents

HistoryNext ==
  \/ \E z \in Zones \cup {UnknownZone} : \E k \in {"PM25", "CO2", Null} :
       \E w \in Intervals : GetZoneHistory(z, k, w)
  \/ \E b \in Buildings : GetBuildingAnalytics(b)

SpecHistory == InitHistory /\ [][HistoryNext]_vars

(* ------------------------------------------------------------------ *)
(* Ingestion for the PM2.5 sensor of Z1 with a broadcast block that    *)
(* can fail, and one socket that can subscribe to Z1                   *)
(* ------------------------------------------------------------------ *)
OutageBodies ==
  [sensor_id : {"s1"}, value : {SensorTypes.PM25.good, SensorTypes.PM25.critical},
   timestamp : {0, 1}, status : {Null}]

OutageNext ==
  \/ Connect("c1")
  \/ AuthenticateBegin("c1", TRUE)
  \/ AuthenticateEnd("c1", TRUE)
  \/ HandleZoneSubscription("c1", "Z1")
  \/ Disconnect("c1")
  \/ Drained("c1")
  \/ Tick
  \/ \E body \in OutageBodies : \E ws \in WsOutcomes : PostSensorDataThrough("B1", body, ws)

SpecOutage == Init /\ [][OutageNext]_vars

(* ------------------------------------------------------------------ *)
(* Ingestion, statement by statement, with a store that can reject the *)
(* queries of generateAlert                                            *)
(* ------------------------------------------------------------------ *)
StoreFailureNext ==
  \/ \E s \in AlertSensors : \E v \in {Thresholds(s).moderate, Thresholds(s).poor, Thresholds(s).critical} :
       InsertSensorReading(ZoneBuilding[SensorTable[s].zone_id], s, v, 0)
  \/ \E r \in inflight : GenerateAlert(r)
  \/ \E r \in inflight : GenerateAlertRejected(r)
  \/ \E r \in inflight : BroadcastSensorReading(r)
  \/ Tick

SpecStoreFailure == Init /\ [][StoreFailureNext]_vars

(* ------------------------------------------------------------------ *)
(* Analytics over two periods that hold the same values: MaxReadings + 1 *)
(* Temperature readings of building B1 in the previous period, and     *)
(* readings of the same values spread over the buckets of the current  *)
(* period                                                              *)
(* ------------------------------------------------------------------ *)
SampleValues == {1000, 2000}

SampleTables ==
  LET n == MaxReadings + 1
  IN {[i \in 1..(2 * n) |->
         IF i <= n THEN ReadingRow("s5", vs[i], tp) ELSE ReadingRow("s5", vs[i - n], tc[i - n])] :
        vs \in [1..n -> SampleValues], tp \in 1..Period, tc \in [1..n -> (Period + 1)..(2 * Period)]}

\* the store holds the readings of a table at time 2 Period
InitSamples ==
  /\ now = 2 * Period
  /\ sensor_readings \in SampleTables
  /\ ingested = [i \in 1..Len(sensor_readings) |->
                   [sensor_id |-> sensor_readings[i].sensor_id, value |-> sensor_readings[i].value,
                    timestamp |-> sensor_readings[i].time, status |-> Null]]
  /\ alerts = <<>>
  /\ cleared = <<>>
  /\ inflight = {}
  /\ response = NoResponse
  /\ socketStatus = [c \in Sockets |-> "new"]
  /\ authPending = {}
  /\ authenticatedClients = <<>>
  /\ buildingSubscriptions = <<>>
  /\ zoneSubscriptions = <<>>
  /\ rooms = [c \in Sockets |-> {}]
  /\ delivered = NoEvents

SpecSamples == InitSamples /\ [][TrendNext]_vars

FanoutNext ==
  \/ RegistrySteps({"B1"}, {"Z1"})
  \/ \E b \in {"B1"} : \E z \in {"Z1"} : BroadcastNewAlert(b, z)
  \/ \E b \in {"B1"} : \E z \in {"Z1"} : BroadcastAlertResolved(b, z)
  \/ \E v \in {SensorTypes.PM25.good, SensorTypes.PM25.critical} : PostSensorData("B1", "s1", v, 0)

SpecFanout == Init /\ [][FanoutNext]_vars

(* ------------------------------------------------------------------ *)
(* The whole server                                                    *)
(* ------------------------------------------------------------------ *)
Next ==
  \/ RegistryNext
  \/ \E b \in Buildings : \E z \in Zones : BroadcastNewAlert(b, z)
  \/ \E b \in Buildings : \E z \in Zones : BroadcastAlertResolved(b, z)
  \/ \E b \in Buildings : \E s \in SensorIds \cup {UnknownSensor} : \E v \in InputValues : \E ts \in 0..MaxTime :
       \E ws \in WsOutcomes :
         PostSensorDataThrough(b, [sensor_id |-> s, value |-> v, timestamp |-> ts, status |-> Null], ws)
  \/ Tick
  \/ \E b \in Buildings : \E z \in Zones \cup {UnknownZone} : GetZoneDetails(b, z)
  \/ \E z \in Zones \cup {UnknownZone} : \E k \in DOMAIN SensorTypes \cup {Null} : \E w \in Intervals :
       GetZoneHistory(z, k, w)
  \/ \E a \in AlertIds : PatchAlertRead(a)
  \/ \E a \in AlertIds : \E u \in Users : PostAlertResolve(a, u)
  \/ \E b \in Buildings : \E u \in Users : PostAlertsClear(b, u)
  \/ \E b \in Buildings : GetBuildingAlerts(b)
  \/ \E a \in AlertIds : \E u \in Users : MarkAlertResolved(a, u)
  \/ \E b \in Buildings : GetBuildingAnalytics(b)
  \/ \E b \in Buildings : \E s \in SensorIds \cup {UnknownSensor} : \E v \in InputValues : \E ts \in 0..MaxTime :
       InsertSensorReading(b, s, v, ts)
  \/ \E r \in inflight : GenerateAlert(r)
  \/ \E r \in inflight : GenerateAlertRejected(r)
  \/ \E r \in inflight : BroadcastSensorReading(r)
  \/ \E a \in AlertIds : \E u \in Users : ResolveAlertCheck(a, u)
  \/ \E r \in inflight : ResolveAlertUpdate(r)

Spec == Init /\ [][Next]_vars

(* ------------------------------------------------------------------ *)
(* Classification claims, over the rows ingestion stored and the       *)
(* request values that produced them                                   *)
(* ------------------------------------------------------------------ *)
KindOf(i) == SensorTable[sensor_readings[i].sensor_id].sensor_type

\* the band a value falls in when the comparison is reversed: the highest
\* severity whose threshold the value is at or below
AtOrBelowBand(t, v) ==
  IF v <= t.critical THEN "critical"
  ELSE IF v <= t.poor THEN "poor"
  ELSE IF v <= t.moderate THEN "moderate"
  ELSE "good"

\* the highest band whose threshold the value meets or exceeds, good if none
HighestBandMet(t, v) ==
  LET met == {b \in {"moderate", "poor", "critical"} : v >= t[b]}
  IN IF met = {} THEN "good" ELSE CHOOSE b \in met : \A x \in met : Rank(x) <= Rank(b)

Ascending(t) == t.moderate <= t.poor /\ t.poor <= t.critical

\* C1: every stored Humidity reading has the status of the reversed
\* comparison: critical if value <= critical_threshold, else poor if
\* value <= poor_threshold, else moderate if value <= moderate_threshold,
\* else good.
C1_HumidityInverted ==
  \A i \in 1..Len(sensor_readings) :
    KindOf(i) = "Humidity" =>
      sensor_readings[i].status = AtOrBelowBand(SensorTypes.Humidity, ingested[i].value)

C3_Monotone ==
  \A i, j \in 1..Len(sensor_readings) :
    (KindOf(i) = KindOf(j) /\ ingested[i].value <= ingested[j].value) =>
      IF KindOf(i) = "Humidity"
      THEN Rank(sensor_readings[i].status) >= Rank(sensor_readings[j].status)
      ELSE Rank(sensor_readings[i].status) <= Rank(sensor_readings[j].status)

(* ------------------------------------------------------------------ *)
(* Alert creation                                                      *)
(* ------------------------------------------------------------------ *)
\* a step in which an ingestion completed: a row was stored and answered 201
IngestionCompleted ==
  /\ Len(sensor_readings') = Len(sensor_readings) + 1
  /\ response'.op = "sensor-data"
  /\ response'.code = 201

\* C4: an ingestion that completes adds exactly one alert row, unresolved
\* and bound to the reading's sensor, its zone, its type and its value,
\* when the stored status is poor or critical, and leaves the alerts as
\* they were otherwise, whatever alerts are already open.
C4_OneAlertPerQualifyingReading ==
  [][IngestionCompleted =>
       LET r == sensor_readings'[Len(sensor_readings')]
       IN IF r.status \in {"poor", "critical"}
          THEN /\ Len(alerts') = Len(alerts) + 1
               /\ SubSeq(alerts', 1, Len(alerts)) = alerts
               /\ LET a == alerts'[Len(alerts')]
                  IN /\ a.sensor_id = r.sensor_id
                     /\ a.zone_id = SensorTable[r.sensor_id].zone_id
                     /\ a.sensor_type = SensorTable[r.sensor_id].sensor_type
                     /\ a.value = r.value
                     /\ a.status = r.status
                     /\ a.is_resolved = FALSE
          ELSE alerts' = alerts]_vars

\* a second qualifying reading of a sensor whose first alert is still
\* unresolved has opened a second alert
C4_Witness ==
  /\ Len(alerts) = 2
  /\ alerts[1].sensor_id = alerts[2].sensor_id
  /\ ~alerts[1].is_resolved /\ ~alerts[2].is_resolved

(* ------------------------------------------------------------------ *)
(* Fan-out                                                             *)
(* ------------------------------------------------------------------ *)
\* a live connection the registry lists for zone z or for building b
Subscribed(c, b, z) ==
  /\ socketStatus[c] = "open"
  /\ c \in ZoneSubscribers(z) \cup BuildingSubscribers(b)

\* C5: when an ingestion stores a poor or critical reading of a sensor in
\* zone z of building b, every connection subscribed to z or to b gets
\* exactly one alert_new event, and every other connection none.
C5_AlertNewOnIngestion ==
  [][(IngestionCompleted /\ response'.status \in {"poor", "critical"}) =>
       LET z == SensorTable[response'.id].zone_id
       IN \A c \in Sockets :
            Copies(delivered'[c], "alert_new") = IF Subscribed(c, ZoneBuilding[z], z) THEN 1 ELSE 0]_vars

\* C6: a new-alert or resolved-alert broadcast for zone z of building b
\* delivers the event exactly once to every connection subscribed to z or
\* to b (once, not twice, to one subscribed to both), and to no other.
C6_ExactlyOncePerSubscriber ==
  [][\A b \in Buildings : \A z \in Zones :
       /\ BroadcastNewAlert(b, z) =>
            \A c \in Sockets :
              Copies(delivered'[c], "alert_new") = IF Subscribed(c, b, z) THEN 1 ELSE 0
       /\ BroadcastAlertResolved(b, z) =>
            \A c \in Sockets :
              Copies(delivered'[c], "alert_resolved") = IF Subscribed(c, b, z) THEN 1 ELSE 0]_vars

(* ------------------------------------------------------------------ *)
(* Registry                                                            *)
(* ------------------------------------------------------------------ *)
\* C7: subscribeBuilding(c, b) replaces c's earlier building subscription:
\* after it c is in no other building's subscriber set and in no other
\* building's room, and in every state a connection is in at most one
\* building's subscriber set.
C7_OneBuildingPerConnection ==
  /\ [][\A c \in Sockets : \A b \in Buildings :
          (c \in DOMAIN authenticatedClients /\ HandleBuildingSubscription(c, b)) =>
            \A other \in Buildings \ {b} :
              /\ other \in DOMAIN buildingSubscriptions' => c \notin buildingSubscriptions'[other]
              /\ BuildingRoom(other) \notin rooms'[c]]_vars
  /\ [](\A c \in Sockets : Cardinality({b \in Buildings : c \in BuildingSubscribers(b)}) <= 1)

\* C8: once the disconnect of c has been handled, c is in no building's
\* and no zone's subscriber set.
C8_DisconnectRemovesEverywhere ==
  \A c \in Sockets :
    socketStatus[c] \in {"closing", "closed"} =>
      /\ \A b \in Buildings : c \notin BuildingSubscribers(b)
      /\ \A z \in Zones : c \notin ZoneSubscribers(z)

\* a subscribe or unsubscribe request of socket c reaches its handler
SubscriptionRequest(c) ==
  \/ \E b \in Buildings \cup {Null} : HandleBuildingSubscription(c, b)
  \/ \E z \in Zones \cup {Null} : HandleZoneSubscription(c, z)
  \/ \E z \in Zones \cup {Null} : HandleZoneUnsubscription(c, z)

\* C9: a subscribeBuilding, subscribeZone or unsubscribeZone request handled
\* for a connection that is not in the registry is answered with one error
\* event and changes no subscriber set, no room and no client record.
C9_UnregisteredRequestIsRejected ==
  [][\A c \in Sockets :
       (c \notin DOMAIN authenticatedClients /\ SubscriptionRequest(c)) =>
         /\ Len(delivered'[c]) = 1
         /\ delivered'[c][1].name = "error"
         /\ UNCHANGED <<authenticatedClients, buildingSubscriptions, zoneSubscriptions, rooms>>]_vars

\* a request of a socket whose disconnect was handled has been answered
\* with the error, while another connection holds subscriptions
C9_Witness ==
  \E c \in Sockets :
    /\ socketStatus[c] = "closing"
    /\ c \notin DOMAIN authenticatedClients
    /\ Len(delivered[c]) = 1
    /\ delivered[c][1].name = "error"
    /\ \E d \in Sockets \ {c} : d \in ZoneSubscribers("Z1") /\ d \in BuildingSubscribers("B1")

(* ------------------------------------------------------------------ *)
(* Alert lifecycle                                                     *)
(* ------------------------------------------------------------------ *)
\* C10: a resolved alert is terminal and immutable: no step changes any
\* field of an alert row that is resolved.
C10_ResolvedIsImmutable ==
  [][\A i \in 1..Len(alerts) : alerts[i].is_resolved => alerts'[i] = alerts[i]]_vars

\* C11: resolve is idempotent: a resolve request for an alert that is
\* already resolved, by the same or another actor, is answered without
\* error and leaves is_resolved, resolved_at and resolved_by of the alert
\* as the first resolve set them.
C11_ResolveIdempotent ==
  [][\A a \in AlertIds : \A u \in Users :
       (a \in 1..Len(alerts) /\ alerts[a].is_resolved /\ PostAlertResolve(a, u)) =>
         /\ response'.code = 200
         /\ alerts'[a].is_resolved
         /\ alerts'[a].resolved_at = alerts[a].resolved_at
         /\ alerts'[a].resolved_by = alerts[a].resolved_by]_vars

\* C12: acknowledge sets acknowledged_at only when it is unset: a read
\* request for an alert whose acknowledged_at is set leaves acknowledged_at
\* at its first value.
C12_AcknowledgeOnlyWhenUnset ==
  [][\A a \in AlertIds :
       (a \in 1..Len(alerts) /\ alerts[a].acknowledged_at # 0 /\ PatchAlertRead(a)) =>
         alerts'[a].acknowledged_at = alerts[a].acknowledged_at]_vars

\* C13: resolveAll(b, u) marks as resolved, by u at the time of the call,
\* exactly the alerts that were unresolved and whose zone belongs to b,
\* answers with the number of those alerts, and leaves every other alert
\* (of another building, or already resolved) as it was.
C13_ResolveAllExactlyOpenOfBuilding ==
  [][\A b \in Buildings : \A u \in Users :
       PostAlertsClear(b, u) =>
         LET open == {i \in 1..Len(alerts) :
                        ZoneBuilding[alerts[i].zone_id] = b /\ ~alerts[i].is_resolved}
         IN /\ Len(alerts') = Len(alerts)
            /\ \A i \in 1..Len(alerts) :
                 IF i \in open
                 THEN alerts'[i] = [alerts[i] EXCEPT !.is_resolved = TRUE,
                                                     !.resolved_at = now,
                                                     !.resolved_by = u]
                 ELSE alerts'[i] = alerts[i]
            /\ response'.code = 200
            /\ response'.resolvedCount = Cardinality(open)]_vars

\* a resolveAll has just resolved one alert of a building and left the
\* building's other alert, resolved earlier by another user, as it was
C13_Witness ==
  /\ response.op = "clear"
  /\ response.resolvedCount = 1
  /\ Len(alerts) = 2
  /\ alerts[1].zone_id = alerts[2].zone_id
  /\ alerts[1].is_resolved /\ alerts[1].resolved_by = "u1" /\ alerts[1].resolved_at = 1
  /\ alerts[2].is_resolved /\ alerts[2].resolved_by = "u2" /\ alerts[2].resolved_at = 2

\* an alert of the list
Lists(list, i) == \E j \in 1..Len(list) : list[j].id = i

\* C14: under any interleaving of resolveAll with ingestions and with other
\* resolve and resolveAll calls, no alert is lost or double-resolved: every
\* alert opened stays a row with its sensor, zone, value and time, and is
\* either unresolved and listed by activeAlerts of its building, or
\* resolved; each alert is returned by at most one resolveAll call; and a
\* resolveAll returns only alerts that existed and were unresolved when it
\* ran, an alert opened later being unresolved.
C14_NoAlertLostOrDoubleResolved ==
  /\ [](\A i \in 1..Len(alerts) :
          \/ alerts[i].is_resolved
          \/ \A list \in GetActiveAlerts(ZoneBuilding[alerts[i].zone_id]) : Lists(list, i))
  /\ [](\A i \in DOMAIN cleared : cleared[i] <= 1)
  /\ [][/\ Len(alerts') >= Len(alerts)
        /\ \A i \in 1..Len(alerts) :
             /\ alerts'[i].sensor_id = alerts[i].sensor_id
             /\ alerts'[i].zone_id = alerts[i].zone_id
             /\ alerts'[i].value = alerts[i].value
             /\ alerts'[i].time = alerts[i].time
        /\ \A i \in (Len(alerts) + 1)..Len(alerts') : ~alerts'[i].is_resolved
        /\ \A i \in DOMAIN cleared' :
             (i \notin DOMAIN cleared \/ cleared'[i] # cleared[i]) =>
               /\ i \in 1..Len(alerts)
               /\ ~alerts[i].is_resolved
               /\ alerts'[i].is_resolved]_vars

\* a resolveAll ran between the two inserts of an ingestion: the second
\* reading of the sensor was stored at time 1, the resolveAll returned the
\* first alert at time 2, and the alert of the second reading, opened after
\* it, is unresolved
C14_Witness ==
  /\ Len(sensor_readings) = 2 /\ Len(alerts) = 2
  /\ sensor_readings[1].sensor_id = sensor_readings[2].sensor_id
  /\ sensor_readings[1].time = 1 /\ sensor_readings[2].time = 1
  /\ alerts[1].is_resolved /\ alerts[1].resolved_at = 2
  /\ 1 \in DOMAIN cleared /\ cleared[1] = 1
  /\ alerts[2].time = 2 /\ ~alerts[2].is_resolved

\* C15: an acknowledge or a resolve, through either route or through the
\* chat function, for an alert id that matches no alert fails with
\* AlertNotFound (code 404) and changes no alert; none reports success.
C15_UnknownAlertIsNotFound ==
  [][\A a \in AlertIds : \A u \in Users :
       (/\ a \notin 1..Len(alerts)
        /\ PatchAlertRead(a) \/ PostAlertResolve(a, u) \/ MarkAlertResolved(a, u)) =>
         /\ response'.code = 404
         /\ alerts' = alerts]_vars

(* ------------------------------------------------------------------ *)
(* Derivation of the status                                            *)
(* ------------------------------------------------------------------ *)
\* C16: every reading stored by ingestion has the status the classifier
\* gives for the request's value and the sensor's thresholds, and a status
\* supplied in the request body influences neither the stored status nor
\* the opening of an alert: two requests for the same sensor and value
\* store the same status, and an ingestion opens an alert exactly when the
\* classifier's status is poor or critical.
C16_StatusIsDerived ==
  /\ [](\A i \in 1..Len(sensor_readings) :
          sensor_readings[i].sensor_id \in Catalogued =>
            sensor_readings[i].status =
              Classify(SensorTypes[KindOf(i)], ingested[i].value))
  /\ [](\A i, j \in 1..Len(sensor_readings) :
          (/\ ingested[i].sensor_id = ingested[j].sensor_id
           /\ ingested[i].value = ingested[j].value) =>
            /\ sensor_readings[i].status = sensor_readings[j].status
            /\ sensor_readings[i].value = sensor_readings[j].value)
  /\ [][IngestionCompleted =>
          LET n == Len(sensor_readings')
              derived == Classify(SensorTypes[SensorTable[ingested'[n].sensor_id].sensor_type],
                                  ingested'[n].value)
          IN /\ response'.status = derived
             /\ IF derived \in {"poor", "critical"}
                THEN /\ Len(alerts') = Len(alerts) + 1
                     /\ alerts'[Len(alerts')].status = derived
                     /\ alerts'[Len(alerts')].severity = (IF derived = "critical" THEN "critical" ELSE "high")
                ELSE alerts' = alerts]_vars

\* two requests for the same sensor with the same critical value, one
\* claiming the status good and one claiming none, were both stored as
\* critical and each opened an alert
C16_Witness ==
  /\ Len(sensor_readings) = 2 /\ Len(alerts) = 2
  /\ ingested[1].sensor_id = ingested[2].sensor_id
  /\ ingested[1].value = ingested[2].value
  /\ ingested[1].status = "good" /\ ingested[2].status = Null
  /\ sensor_readings[1].status = "critical" /\ sensor_readings[2].status = "critical"

C18_ActiveAlertsAreTheUnresolved ==
  /\ [][\A b \in Buildings :
          GetBuildingAlerts(b) =>
            LET list == response'.data
                open == {i \in 1..Len(alerts) :
                           ZoneBuilding[alerts[i].zone_id] = b /\ ~alerts[i].is_resolved}
            IN /\ Len(list) = Cardinality(open)
               /\ {list[j].id : j \in 1..Len(list)} = open
               /\ \A j \in 1..Len(list) :
                    list[j].isRead <=> alerts[list[j].id].acknowledged_at # 0]_vars
  /\ [][\A i \in 1..Len(alerts) :
          alerts'[i].is_resolved =>
            \A b \in Buildings : \A list \in GetActiveAlerts(b)' : ~Lists(list, i)]_vars

\* the list of a building holds its acknowledged, unresolved alert, flagged
\* as read, and not its resolved one
C18_Witness ==
  /\ response.op = "alerts"
  /\ Len(alerts) = 2
  /\ alerts[1].zone_id = alerts[2].zone_id
  /\ alerts[1].is_resolved
  /\ ~alerts[2].is_resolved /\ alerts[2].acknowledged_at # 0
  /\ Len(response.data) = 1
  /\ response.data[1].id = 2 /\ response.data[1].isRead

(* ------------------------------------------------------------------ *)
(* Zone membership                                                     *)
(* ------------------------------------------------------------------ *)
\* the membership (c, z) is in the zone's room, in the client's own set and
\* in the zone's subscriber set
ZoneMember(c, z) ==
  /\ ZoneRoom(z) \in rooms[c]
  /\ c \in DOMAIN authenticatedClients /\ z \in authenticatedClients[c].subscribedZones
  /\ c \in ZoneSubscribers(z)

\* the membership (c, z) is in none of the three
ZoneNonMember(c, z) ==
  /\ ZoneRoom(z) \notin rooms[c]
  /\ c \in DOMAIN authenticatedClients => z \notin authenticatedClients[c].subscribedZones
  /\ c \notin ZoneSubscribers(z)

\* everything of the registry but the membership (c, z)
RegistryBut(c, z) ==
  <<socketStatus, authPending, buildingSubscriptions,
    DOMAIN authenticatedClients,
    [x \in DOMAIN authenticatedClients |->
       [buildingId |-> authenticatedClients[x].buildingId,
        subscribedZones |-> IF x = c THEN authenticatedClients[x].subscribedZones \ {z}
                            ELSE authenticatedClients[x].subscribedZones]],
    [y \in Zones |-> IF y = z THEN ZoneSubscribers(y) \ {c} ELSE ZoneSubscribers(y)],
    [x \in Sockets |-> IF x = c THEN rooms[x] \ {ZoneRoom(z)} ELSE rooms[x]]>>

\* C19: subscribeZone(c, z) and unsubscribeZone(c, z) of a registered
\* connection add and remove the one membership (c, z) and are idempotent:
\* after subscribeZone the membership is there and a subscribeZone applied
\* when it is there changes nothing; after unsubscribeZone it is gone and an
\* unsubscribeZone applied when c is not subscribed to z changes nothing;
\* neither changes c's building subscription, c's other zones or another
\* connection's subscriptions.
C19_ZoneSubscriptionIsIdempotent ==
  [][\A c \in Sockets : \A z \in Zones :
       c \in DOMAIN authenticatedClients =>
         /\ HandleZoneSubscription(c, z) =>
              /\ ZoneMember(c, z)'
              /\ ZoneMember(c, z) => wsVars' = wsVars
              /\ RegistryBut(c, z)' = RegistryBut(c, z)
         /\ HandleZoneUnsubscription(c, z) =>
              /\ ZoneNonMember(c, z)'
              /\ ZoneNonMember(c, z) => wsVars' = wsVars
              /\ RegistryBut(c, z)' = RegistryBut(c, z)]_vars

\* a connection subscribed to building B1 and zone Z1 has been answered
\* zone_unsubscribed for Z2, to which it is not subscribed, while the other
\* connection is subscribed to Z1 and Z2
C19_Witness ==
  \E c \in Sockets : \E d \in Sockets \ {c} :
    /\ Len(delivered[c]) = 1
    /\ delivered[c][1].name = "zone_unsubscribed" /\ delivered[c][1].zoneId = "Z2"
    /\ ZoneMember(c, "Z1") /\ ZoneNonMember(c, "Z2")
    /\ c \in BuildingSubscribers("B1")
    /\ ZoneMember(d, "Z1") /\ ZoneMember(d, "Z2")

(* ------------------------------------------------------------------ *)
(* Trends                                                              *)
(* ------------------------------------------------------------------ *)
\* the arithmetic mean of the values of the rows idx (not empty)
MeanOf(idx) == Frac(SumOfValues(idx), Cardinality(idx))

\* C20: for a previous-period mean that is defined and not zero, negative
\* means included, the trend reports pct_change = (current_mean -
\* previous_mean) / previous_mean * 100 (to two decimals) and the direction
\* stable when |pct_change| < 2, else up when it is positive and down when
\* it is negative.
C20_TrendOfNonZeroPrevious ==
  [][\A b \in Buildings : \A k \in DOMAIN SensorTypes :
       (/\ GetBuildingAnalytics(b)
        /\ CurrentRows(b, k) # {} /\ PreviousRows(b, k) # {}
        /\ SumOfValues(PreviousRows(b, k)) # 0) =>
         LET cur == MeanOf(CurrentRows(b, k))
             prev == MeanOf(PreviousRows(b, k))
             pct == Frac(100 * (cur.n * prev.d - prev.n * cur.d), cur.d * prev.n)
         IN /\ response'.trends[k].change = Round2(pct)
            /\ response'.trends[k].direction =
                 (IF Abs(pct.n) < 2 * pct.d THEN "stable"
                  ELSE IF pct.n > 0 THEN "up" ELSE "down")]_vars

\* C21: a trend whose previous period holds no reading of the kind, or
\* readings of mean zero, reports pct_change = 0 and direction stable; and
\* an analytics request answers with a trend for every kind when the
\* current period, the previous period or both hold no reading.
C21_TrendWithoutPrevious ==
  [][\A b \in Buildings :
       (response'.op = "analytics" /\ GetBuildingAnalytics(b)) =>
         \A k \in DOMAIN SensorTypes :
           /\ (PreviousRows(b, k) = {} \/ SumOfValues(PreviousRows(b, k)) = 0) =>
                /\ response'.trends[k].change = 0
                /\ response'.trends[k].direction = "stable"
           /\ (PreviousRows(b, k) = {} \/ CurrentRows(b, k) = {}) =>
                /\ response'.code = 200
                /\ k \in DOMAIN response'.trends]_vars

\* analytics of B1 were answered with readings of the Temperature sensor in
\* the current period only, not zero on average
C21_Witness ==
  /\ response.op = "analytics" /\ response.building = "B1"
  /\ PreviousRows("B1", "Temperature") = {}
  /\ CurrentRows("B1", "Temperature") # {}
  /\ SumOfValues(CurrentRows("B1", "Temperature")) > 0
  /\ response.trends["Temperature"].change = 0
  /\ response.trends["Temperature"].direction = "stable"

(* ------------------------------------------------------------------ *)
(* Historical series                                                   *)
(* ------------------------------------------------------------------ *)
\* the list has one entry per bucket of width w that holds a row of rows,
\* with the mean of those rows, in strictly ascending order of bucket start
SeriesOf(list, rows, w) ==
  /\ \A j \in 1..Len(list) : \A l \in 1..Len(list) :
       j < l => list[j].timestamp < list[l].timestamp
  /\ \A j \in 1..Len(list) :
       LET inBucket == {i \in rows : /\ list[j].timestamp <= sensor_readings[i].time
                                     /\ sensor_readings[i].time < list[j].timestamp + w}
       IN /\ list[j].timestamp % w = 0
          /\ inBucket # {}
          /\ list[j].value = MeanOf(inBucket)
  /\ \A i \in rows : \E j \in 1..Len(list) :
       /\ list[j].timestamp <= sensor_readings[i].time
       /\ sensor_readings[i].time < list[j].timestamp + w

C23_LatestReadingPerKind ==
  [][\A b \in Buildings : \A z \in Zones :
       (/\ response'.op = "zone" /\ response'.code = 200 /\ response'.id = z
        /\ GetZoneDetails(b, z)) =>
         LET rows == {i \in 1..Len(sensor_readings) :
                        SensorTable[sensor_readings[i].sensor_id].zone_id = z}
             kinds == {KindOf(i) : i \in rows}
             list == response'.readings
         IN /\ \A r \in list : r.type \in kinds
            /\ \A k \in kinds :
                 /\ Cardinality({r \in list : r.type = k}) = 1
                 /\ \A r \in list : r.type = k =>
                      \E i \in rows :
                        /\ KindOf(i) = k
                        /\ r.id = sensor_readings[i].sensor_id
                        /\ r.value = sensor_readings[i].value
                        /\ r.timestamp = sensor_readings[i].time
                        /\ r.status = sensor_readings[i].status
                        /\ \A j \in rows : KindOf(j) = k =>
                             sensor_readings[j].time <= sensor_readings[i].time]_vars

\* the details of Z1 were answered after a PM2.5 reading captured at time 2
\* and a later request carrying a PM2.5 reading captured at time 1: the one
\* reading of the answer is the reading of time 2
C23_Witness ==
  /\ response.op = "zone" /\ response.code = 200 /\ response.id = "Z1"
  /\ Len(sensor_readings) = 2
  /\ sensor_readings[1].sensor_id = "s1" /\ sensor_readings[1].time = 2
  /\ sensor_readings[2].sensor_id = "s1" /\ sensor_readings[2].time = 1
  /\ sensor_readings[1].value # sensor_readings[2].value
  /\ Cardinality(response.readings) = 1
  /\ \A r \in response.readings : r.timestamp = 2 /\ r.value = sensor_readings[1].value

(* ------------------------------------------------------------------ *)
(* Failure of the broadcast                                            *)
(* ------------------------------------------------------------------ *)
\* C24: an ingestion whose broadcast of the sensor_reading event fails
\* still answers 201 with the status of the reading it stored, delivers no
\* event, and leaves the reading, and its alert when the status is poor or
\* critical, in the store; no later step removes them.
C24_BroadcastFailureIsNotRaised ==
  /\ [][\A body \in OutageBodies :
          PostSensorDataThrough("B1", body, "failed") =>
            LET n == Len(sensor_readings) + 1
                t == SensorTypes.PM25
                alerting == body.value >= t.poor
            IN /\ response'.code = 201
               /\ Len(sensor_readings') = n
               /\ sensor_readings'[n].sensor_id = body.sensor_id
               /\ sensor_readings'[n].value = body.value
               /\ response'.id = body.sensor_id
               /\ response'.status = sensor_readings'[n].status
               /\ response'.timestamp = sensor_readings'[n].time
               /\ delivered' = NoEvents
               /\ IF alerting
                  THEN /\ Len(alerts') = Len(alerts) + 1
                       /\ alerts'[Len(alerts')].sensor_id = body.sensor_id
                       /\ alerts'[Len(alerts')].value = body.value
                  ELSE alerts' = alerts]_vars
  /\ [][/\ Len(sensor_readings') >= Len(sensor_readings)
        /\ \A i \in 1..Len(sensor_readings) : sensor_readings'[i] = sensor_readings[i]
        /\ Len(alerts') >= Len(alerts)]_vars

\* a critical reading has just been ingested while c1 was in the room of
\* Z1 (no step since has emptied the deliveries: the clock has not moved and
\* no authentication is pending); c1 got no event, the request was answered
\* 201 critical, reading and alert are stored
C24_Witness ==
  /\ "c1" \in ZoneSubscribers("Z1") /\ ZoneRoom("Z1") \in rooms["c1"]
  /\ response.op = "sensor-data" /\ response.code = 201 /\ response.status = "critical"
  /\ delivered["c1"] = <<>>
  /\ now = 1 /\ authPending = {}
  /\ Len(sensor_readings) = 1 /\ sensor_readings[1].status = "critical"
  /\ Len(alerts) = 1 /\ alerts[1].sensor_id = "s1"

(* ------------------------------------------------------------------ *)
(* Reading and alert together                                          *)
(* ------------------------------------------------------------------ *)
\* C25: once no ingestion call is under way, whether the calls reported
\* success or failure, every stored reading whose status is poor or
\* critical has an alert for the same sensor and value.
C25_ReadingAndAlertTogether ==
  inflight = {} =>
    \A i \in 1..Len(sensor_readings) :
      sensor_readings[i].status \in {"poor", "critical"} =>
        \E a \in 1..Len(alerts) :
          /\ alerts[a].sensor_id = sensor_readings[i].sensor_id
          /\ alerts[a].value = sensor_readings[i].value

(* ------------------------------------------------------------------ *)
(* Authentication racing with the disconnect                           *)
(* ------------------------------------------------------------------ *)
\* C26: when no authentication is awaiting its lookups and no socket has
\* events left to dispatch, every entry of the authenticated-client
\* registry belongs to a connected socket, so that the connected-client
\* count is the number of live authenticated connections.
C26_NoEntryForDisconnectedSocket ==
  (authPending = {} /\ \A c \in Sockets : socketStatus[c] # "closing") =>
    /\ \A c \in DOMAIN authenticatedClients : socketStatus[c] = "open"
    /\ Cardinality(DOMAIN authenticatedClients) =
         Cardinality({c \in Sockets : socketStatus[c] = "open" /\ c \in DOMAIN authenticatedClients})

(* ------------------------------------------------------------------ *)
(* The reading of the sensor_reading event                             *)
(* ------------------------------------------------------------------ *)
\* C27: every sensor_reading event that an ingestion call broadcasts
\* carries the value, timestamp and status of the reading this call
\* stored, also when the call's timestamp is older than a stored reading of
\* the sensor.
C27_EventCarriesTheStoredReading ==
  [][\A body \in OutageBodies :
       PostSensorDataThrough("B1", body, "sent") =>
         LET n == Len(sensor_readings) + 1
         IN \A c \in Sockets : \A j \in 1..Len(delivered'[c]) :
              delivered'[c][j].name = "sensor_reading" =>
                /\ delivered'[c][j].reading.id = sensor_readings'[n].sensor_id
                /\ delivered'[c][j].reading.value = sensor_readings'[n].value
                /\ delivered'[c][j].reading.timestamp = sensor_readings'[n].time
                /\ delivered'[c][j].reading.status = sensor_readings'[n].status]_vars

(* ------------------------------------------------------------------ *)
(* Agreement of the zone indexes                                       *)
(* ------------------------------------------------------------------ *)
\* C28: in every state of the registry, connection c is in the subscriber
\* set of zone z exactly when c is an authenticated client whose own
\* subscribedZones holds z, and no zone key and no building key maps to an
\* empty subscriber set.
C28_ZoneIndexesAgree ==
  /\ \A z \in Zones : \A c \in Sockets :
       (z \in DOMAIN zoneSubscriptions /\ c \in zoneSubscriptions[z])
         <=> (c \in DOMAIN authenticatedClients /\ z \in authenticatedClients[c].subscribedZones)
  /\ \A z \in DOMAIN zoneSubscriptions : zoneSubscriptions[z] # {}
  /\ \A b \in DOMAIN buildingSubscriptions : buildingSubscriptions[b] # {}

(* ------------------------------------------------------------------ *)
(* Well-formed alerts                                                  *)
(* ------------------------------------------------------------------ *)
\* C29: in every state each alert is either resolved with resolved_at and
\* resolved_by both set, or unresolved with both unset; an alert is opened
\* unresolved and unacknowledged; and no step turns a resolved alert back
\* into an unresolved one.
C29_ResolutionIsWholeAndMonotone ==
  /\ [](\A i \in 1..Len(alerts) :
          \/ alerts[i].is_resolved /\ alerts[i].resolved_at # 0 /\ alerts[i].resolved_by # Null
          \/ ~alerts[i].is_resolved /\ alerts[i].resolved_at = 0 /\ alerts[i].resolved_by = Null)
  /\ [][\A i \in (Len(alerts) + 1)..Len(alerts') :
          ~alerts'[i].is_resolved /\ alerts'[i].acknowledged_at = 0]_vars
  /\ [][\A i \in 1..Len(alerts) : alerts[i].is_resolved => alerts'[i].is_resolved]_vars

\* of two alerts one was read and then resolved through the route, the
\* other cleared with its building later
C29_Witness ==
  /\ Len(alerts) = 2
  /\ alerts[1].acknowledged_at = 1
  /\ alerts[1].is_resolved /\ alerts[1].resolved_by = "u1" /\ alerts[1].resolved_at = 1
  /\ alerts[2].is_resolved /\ alerts[2].resolved_by = "u2" /\ alerts[2].resolved_at = 2
  /\ response.op = "clear"

(* ------------------------------------------------------------------ *)
(* The two means of a trend                                            *)
(* ------------------------------------------------------------------ *)
\* the rows idx and the rows jdx hold the same values, each as often
SameValues(idx, jdx) ==
  \A v \in {sensor_readings[i].value : i \in idx \cup jdx} :
    Cardinality({i \in idx : sensor_readings[i].value = v})
      = Cardinality({j \in jdx : sensor_readings[j].value = v})

\* C30: whenever the current period and the previous period hold the same
\* multiset of reading values of a kind, however the readings are spread
\* over the time buckets, the trend of the kind reports pct_change = 0 and
\* direction stable.
C30_SameValuesGiveNoChange ==
  [][\A b \in Buildings :
       (response'.op = "analytics" /\ GetBuildingAnalytics(b)) =>
         \A k \in DOMAIN SensorTypes :
           SameValues(CurrentRows(b, k), PreviousRows(b, k)) =>
             /\ response'.trends[k].change = 0
             /\ response'.trends[k].direction = "stable"]_vars

====
